---- MODULE Spec2Model ----
(***************************************************************************)
(* Payload acquisition of exe_installer: the concurrent chunked downloader *)
(* (DownloadFileByConcurrent and its helpers) and the trailer locator      *)
(* (extractSelf) of the GUI stub, src/unnamed/part_001.                    *)
(*                                                                         *)
(* Chunk ordinals are the Go slice indices 0..n-1; the model's sequences   *)
(* are 1-based, so ordinal idx of the code is position idx+1 here.         *)
(***************************************************************************)
EXTENDS Integers, Sequences, FiniteSets, TLC

\* ------------------------------------------------------------------ bounds
MaxFileSize == 3        \* largest Content-Length the server reports
MaxWorkers == 2         \* largest num_workers a caller passes
MaxPlanSize == 12       \* largest fileSize of the chunk-planning specification
MaxPlanWorkers == 8     \* largest num_workers of the chunk-planning specification
MaxPrefix == 1          \* most stub bytes in front of the embedded archive
MaxArchive == 2         \* most bytes of the embedded archive
\* The trailer model is scaled: a byte has ByteBase values instead of 256, the
\* length field LenWidth bytes instead of 8, the marker 2 bytes instead of 8
\* and the search window SearchLimit bytes instead of 64 * 1024.
ByteBase == 4
LenWidth == 2
SearchLimit == 8
MaxRaw == 5             \* most bytes of an executable of arbitrary content
MaxProgSize == 2        \* largest Content-Length of the calls followed with their progress goroutine
MaxEntries == 2         \* most entries of a tar stream
MaxMoveLen == 2         \* most bytes of a file handed to moveOrCopyFile

\* ------------------------------------------------------- program constants
MaxAttempts == 3        \* for retry := 0; retry < 3; retry++
StatusOK == 200
StatusPartialContent == 206

\* Error values: the kind of failure and, for a chunk failure, the chunk ordinal.
Err(kind, idx) == [kind |-> kind, idx |-> idx]
Nil == Err("nil", -1)          \* the nil error, and the empty atomic.Value
NotReturned == Err("running", -1)

\* A path of the file system: missing, or a file with its bytes.
NoFile == [exists |-> FALSE, data |-> <<>>]
File(bytes) == [exists |-> TRUE, data |-> bytes]

\* ----------------------------------------------------------------- helpers
Min(a, b) == IF a < b THEN a ELSE b

RECURSIVE SumTo(_, _)
SumTo(f, n) == IF n = 0 THEN 0 ELSE f[n] + SumTo(f, n - 1)

RECURSIVE Concat(_, _)
\* ss[1] \o ss[2] \o ... \o ss[n]
Concat(ss, n) == IF n = 0 THEN <<>> ELSE Concat(ss, n - 1) \o ss[n]

\* ------------------------------------------------------------ the server
\* The remote resource: size bytes, the byte at offset o being o itself, so
\* that a misplaced, missing or duplicated byte changes the sequence.
Remote(size) == [k \in 1..size |-> k - 1]

\* The bytes start..end (inclusive offsets) of the remote resource.
RangeBytes(size, start, end) == SubSeq(Remote(size), start + 1, end + 1)

\* What http.DefaultClient.Do can hand back for "Range: bytes=start-end":
\* a transport error, a partial-content answer carrying the range, a
\* full-content answer carrying the whole resource (a server that ignores
\* Range), or another status.
ServerResponses(size, start, end) ==
    { [err |-> TRUE,  status |-> 0,                    body |-> <<>>],
      [err |-> FALSE, status |-> StatusPartialContent, body |-> RangeBytes(size, start, end)],
      [err |-> FALSE, status |-> StatusOK,             body |-> Remote(size)],
      [err |-> FALSE, status |-> 500,                  body |-> <<>>] }

\* io.Copy(file, resp.Body): either the whole body is written and err is nil,
\* or the copy stops after a proper prefix of n bytes with an error.
CopyOutcomes(body) ==
    { [n |-> Len(body), err |-> FALSE] } \cup
    { [n |-> k, err |-> TRUE] : k \in 0..(Len(body) - 1) }

\* ------------------------------------------------------- chunk planning
\* ChunkSizeFor without the rounding up.
ChunkSizeForRoundedDown(fileSize, num_workers) ==
    LET q == fileSize \div num_workers
    IN  IF q <= 0 THEN 1 ELSE q

\* chunkSize := fileSize / num_workers, rounded up, at least 1.
ChunkSizeFor(fileSize, num_workers) ==
    LET q == fileSize \div num_workers
        c == IF fileSize % num_workers # 0 THEN q + 1 ELSE q
    IN  IF c <= 0 THEN 1 ELSE c

\* ChunkEnd without the clamp to fileSize - 1.
ChunkEndUnclamped(start, fileSize, chunkSize) == start + chunkSize - 1

\* The end offset of the chunk starting at start.
ChunkEnd(start, fileSize, chunkSize) ==
    LET end == start + chunkSize - 1
    IN  IF end >= fileSize THEN fileSize - 1 ELSE end

RECURSIVE ChunksFrom(_, _, _)
ChunksFrom(start, fileSize, chunkSize) ==
    IF start < fileSize
    THEN <<[start |-> start, end |-> ChunkEnd(start, fileSize, chunkSize)]>>
         \o ChunksFrom(start + chunkSize, fileSize, chunkSize)
    ELSE <<>>

calculateChunks(fileSize, chunkSize) == ChunksFrom(0, fileSize, chunkSize)

\* ActualWorkers without the lowering to the chunk count.
ActualWorkersRequested(num_workers, nChunks) == num_workers

\* actualWorkers: num_workers, lowered to the chunk count.
ActualWorkers(num_workers, nChunks) ==
    IF num_workers > nChunks THEN nChunks ELSE num_workers

\* ------------------------------------------------------------------ state
VARIABLES
    url, outputPath, num_workers,   \* the arguments of DownloadFileByConcurrent
    remoteSize,                     \* the size of the resource on the server
    pc,                             \* position of the calling goroutine
    ret,                            \* the error the call returned
    fileSize, chunks, actualWorkers,
    i,                              \* index of the running for-range loop
    tempFiles,                      \* per chunk: "nil", "open" or "removed"
    tempData,                       \* per chunk: the bytes of its temp file
    sem, wg,                        \* slots taken in sem; WaitGroup counter
    downloadErr, downloadedSize,    \* the shared download state
    task,                           \* per chunk: the state of its goroutine
    dest, destBefore                \* the file at the target path, now and at the call

dlVars == <<url, outputPath, num_workers, remoteSize, pc, ret,
            fileSize, chunks, actualWorkers, i, tempFiles, tempData, sem, wg,
            downloadErr, downloadedSize, task, dest, destBefore>>

VARIABLES
    exe,                            \* the bytes of the running executable
    embedded, appended,             \* the archive placed in exe; the bytes behind the trailer
    xpc,                            \* position inside extractSelf
    buf, startOffset,               \* the window read from the end of exe
    archiveLen, archiveStartOffset,
    ioLog,                          \* the seeks and reads made on the file, in order
    xret                            \* what extractSelf returned

sfxVars == <<exe, embedded, appended, xpc, buf, startOffset, archiveLen,
             archiveStartOffset, ioLog, xret>>

\* The path handling of DownloadFileByConcurrent, followed on its own.
VARIABLES
    hdrName,                        \* filename= of Content-Disposition, "" when there is none
    urlBase,                        \* filepath.Base of the path of the URL
    outArg, outIsDir,               \* the outputPath argument; whether it is an existing directory
    ppc,                            \* position of the call
    originalFilename, targetPath,
    printed,                        \* the path written to standard output
    result                          \* what the call handed back to its caller

pathVars == <<hdrName, urlBase, outArg, outIsDir, ppc, originalFilename,
              targetPath, printed, result>>

\* The progress goroutine of DownloadFileByConcurrent.
VARIABLES
    prog,                           \* "none", "ticking" (waits for the ticker), "sampled", "stopped"
    lastProgress                    \* the percentage handed to updateProgress last, -1 before the first

progVars == <<prog, lastProgress>>

\* The installer window: the load goroutine of startGUI, the user, and the
\* install goroutine of startInstall.
VARIABLES
    stub,                           \* "download" (part_001) or "offline" (part_002)
    archiveHasMeta, metaHasUrl,     \* meta.json is in the archive; it names a DownloadURL
    lpc,                            \* position of the load goroutine
    filesToInstall,                 \* "nil" or "loaded"
    meta,                           \* "default" or "fromArchive"
    installDirEdit,                 \* the text of the directory field
    page,                           \* the page shown: "install", "progress", "result"
    ipc,                            \* position of the install goroutine
    ierr,                           \* the err variable the deferred function tests
    stepFailed,                     \* the call of this run that returned an error, or "none"
    metaAtStart,                    \* meta when the last install began, "none" before any
    installDir,                     \* the directory read from the line edit when the last install began
    installedDir                    \* "" or the recorded install directory

guiVars == <<stub, archiveHasMeta, metaHasUrl, lpc, filesToInstall, meta,
             installDirEdit, page, ipc, ierr, stepFailed, metaAtStart, installDir,
             installedDir>>

\* untarGzToMemory.
VARIABLES
    gzOk,                           \* gzip.NewReader accepts the header
    stream,                         \* what tr.Next() yields, entry by entry, before io.EOF
    tpc, tpos,                      \* position of the call; entries consumed
    outFiles,                       \* the slice out built so far
    tret                            \* what the call returned

tarVars == <<gzOk, stream, tpc, tpos, outFiles, tret>>

\* moveOrCopyFile.
VARIABLES
    srcFile, dstFile,               \* the files at the paths src and dst
    srcBefore, dstBefore,           \* the two files when the call began
    mvpc,                           \* position of the call
    mvret                           \* what the call returned

mvVars == <<srcFile, dstFile, srcBefore, dstBefore, mvpc, mvret>>

vars == <<dlVars, progVars, sfxVars, pathVars, guiVars, tarVars, mvVars>>

\* What the steps of one component leave alone: the state of the others.
notDl == <<progVars, sfxVars, pathVars, guiVars, tarVars, mvVars>>
notProg == <<sfxVars, pathVars, guiVars, tarVars, mvVars>>
notSfx == <<dlVars, progVars, pathVars, guiVars, tarVars, mvVars>>
notPath == <<dlVars, progVars, sfxVars, guiVars, tarVars, mvVars>>
notGui == <<dlVars, progVars, sfxVars, pathVars, tarVars, mvVars>>
notTar == <<dlVars, progVars, sfxVars, pathVars, guiVars, mvVars>>
notMv == <<dlVars, progVars, sfxVars, pathVars, guiVars, tarVars>>

\* No installer window is open.
GuiIdle ==
    /\ stub = "none"
    /\ archiveHasMeta = FALSE
    /\ metaHasUrl = FALSE
    /\ lpc = "idle"
    /\ filesToInstall = "nil"
    /\ meta = "default"
    /\ installDirEdit = ""
    /\ page = "none"
    /\ ipc = "idle"
    /\ ierr = Nil
    /\ stepFailed = "none"
    /\ metaAtStart = "none"
    /\ installDir = ""
    /\ installedDir = ""

\* moveOrCopyFile is not running.
MvIdle ==
    /\ srcFile = NoFile
    /\ dstFile = NoFile
    /\ srcBefore = NoFile
    /\ dstBefore = NoFile
    /\ mvpc = "idle"
    /\ mvret = NotReturned

\* untarGzToMemory is not running.
TarIdle ==
    /\ gzOk = FALSE
    /\ stream = <<>>
    /\ tpc = "idle"
    /\ tpos = 0
    /\ outFiles = <<>>
    /\ tret = [files |-> <<>>, err |-> NotReturned]

\* The progress goroutine has not been started.
ProgIdle ==
    /\ prog = "none"
    /\ lastProgress = -1

\* extractSelf is not running.
SfxIdle ==
    /\ exe = <<>>
    /\ embedded = <<>>
    /\ appended = <<>>
    /\ xpc = "idle"
    /\ buf = <<>>
    /\ startOffset = 0
    /\ archiveLen = 0
    /\ archiveStartOffset = 0
    /\ ioLog = <<>>
    /\ xret = [kind |-> "running", data |-> <<>>]

\* What a call hands back: the error, and the values returned besides it.
Result(e, values) == [err |-> e, values |-> values]

\* The path handling is not being followed.
PathIdle ==
    /\ hdrName = ""
    /\ urlBase = ""
    /\ outArg = ""
    /\ outIsDir = FALSE
    /\ ppc = "idle"
    /\ originalFilename = ""
    /\ targetPath = <<>>
    /\ printed = <<>>
    /\ result = Result(NotReturned, <<>>)

\* DownloadFileByConcurrent is not running.
DlIdle ==
    /\ url = ""
    /\ outputPath = ""
    /\ num_workers = 0
    /\ remoteSize = 0
    /\ pc = "idle"
    /\ ret = NotReturned
    /\ fileSize = 0
    /\ chunks = <<>>
    /\ actualWorkers = 0
    /\ i = 0
    /\ tempFiles = <<>>
    /\ tempData = <<>>
    /\ sem = 0
    /\ wg = 0
    /\ downloadErr = Nil
    /\ downloadedSize = 0
    /\ task = <<>>
    /\ dest = NoFile
    /\ destBefore = dest

\* Every component but one is at rest.
NotDlIdle == ProgIdle /\ SfxIdle /\ PathIdle /\ GuiIdle /\ TarIdle /\ MvIdle
NotSfxIdle == DlIdle /\ ProgIdle /\ PathIdle /\ GuiIdle /\ TarIdle /\ MvIdle
NotPathIdle == DlIdle /\ ProgIdle /\ SfxIdle /\ GuiIdle /\ TarIdle /\ MvIdle
NotGuiIdle == DlIdle /\ ProgIdle /\ SfxIdle /\ PathIdle /\ TarIdle /\ MvIdle
NotTarIdle == DlIdle /\ ProgIdle /\ SfxIdle /\ PathIdle /\ GuiIdle /\ MvIdle
NotMvIdle == DlIdle /\ ProgIdle /\ SfxIdle /\ PathIdle /\ GuiIdle /\ TarIdle

NChunks == Len(chunks)

\* A chunk goroutine: st is its place in the per-chunk state machine, retry
\* the loop variable of downloadChunk, n and status the byte count and status
\* code of its successful io.Copy, fin whether its deferred function has run.
NewTask == [st |-> "Pending", retry |-> 0, n |-> 0, status |-> 0, fin |-> FALSE]

OldContent == <<7, 7>>

DlInit ==
    /\ url \in {"", "http://host/app.exe"}
    /\ outputPath \in {"", "out"}
    /\ num_workers \in 0..MaxWorkers
    /\ remoteSize \in 0..MaxFileSize
    /\ pc = "validate"
    /\ ret = NotReturned
    /\ fileSize = 0
    /\ chunks = <<>>
    /\ actualWorkers = 0
    /\ i = 0
    /\ tempFiles = <<>>
    /\ tempData = <<>>
    /\ sem = 0
    /\ wg = 0
    /\ downloadErr = Nil
    /\ downloadedSize = 0
    /\ task = <<>>
    /\ dest \in {NoFile, File(OldContent)}
    /\ destBefore = dest

\* return err, before the deferred cleanup is registered.
ReturnEarly(e) ==
    /\ pc' = "done"
    /\ ret' = e

\* return err, once the deferred cleanup is registered: it runs first.
ReturnDeferred(e) ==
    /\ pc' = "cleanup"
    /\ ret' = e

\* InvalidArguments without the test of the output path.
InvalidArgumentsPathUntested(u, o, n) == u = "" \/ n <= 0

\* The three tests of lines 743-752.
InvalidArguments(u, o, n) == u = "" \/ o = "" \/ n <= 0

\* 1. argument validation (lines 743-752).
Validate ==
    /\ pc = "validate"
    /\ IF InvalidArguments(url, outputPath, num_workers)
       THEN ReturnEarly(Err("InvalidArgument", -1))
       ELSE pc' = "filename" /\ ret' = ret
    /\ UNCHANGED notDl
    /\ UNCHANGED <<url, outputPath, num_workers, remoteSize, fileSize,
                   chunks, actualWorkers, i, tempFiles, tempData, sem, wg,
                   downloadErr, downloadedSize, task, dest, destBefore>>

\* 2. getOriginalFilename: the HEAD request fails or yields a name.
GetOriginalFilename ==
    /\ pc = "filename"
    /\ \E ok \in BOOLEAN :
          IF ok THEN pc' = "resolve" /\ ret' = ret
          ELSE ReturnEarly(Err("FilenameError", -1))
    /\ UNCHANGED notDl
    /\ UNCHANGED <<url, outputPath, num_workers, remoteSize, fileSize,
                   chunks, actualWorkers, i, tempFiles, tempData, sem, wg,
                   downloadErr, downloadedSize, task, dest, destBefore>>

\* 3. resolveOutputPath: outputPath is an existing directory (the target is
\* the file name joined to it) or it is not (the target is outputPath and its
\* parent directories are made, which can fail).  dest is the file at the
\* target path either way.
ResolveOutputPath ==
    /\ pc = "resolve"
    /\ \E isDir \in BOOLEAN, mkdirOk \in BOOLEAN :
          IF isDir \/ mkdirOk
          THEN pc' = "size" /\ ret' = ret
          ELSE ReturnEarly(Err("ResolveError", -1))
    /\ UNCHANGED notDl
    /\ UNCHANGED <<url, outputPath, num_workers, remoteSize, fileSize,
                   chunks, actualWorkers, i, tempFiles, tempData, sem, wg,
                   downloadErr, downloadedSize, task, dest, destBefore>>

\* InvalidFileSize letting a zero size through.
InvalidFileSizeNegativeOnly(size) == size < 0

\* if fileSize <= 0 (line 771).
InvalidFileSize(size) == size <= 0

\* 4. getFileSize and the fileSize <= 0 test (lines 766-773): the HEAD
\* request fails or is answered with another status than 200, the answer has
\* no Content-Length header, or the header is parsed.
GetFileSize ==
    /\ pc = "size"
    /\ \E head \in {"failed", "nolength", "ok"} :
          IF head = "failed"
          THEN ReturnEarly(Err("SizeError", -1)) /\ fileSize' = fileSize
          ELSE IF head = "nolength"
          THEN ReturnEarly(Err("NoContentLength", -1)) /\ fileSize' = fileSize
          ELSE IF InvalidFileSize(remoteSize)
               THEN ReturnEarly(Err("InvalidFileSize", -1)) /\ fileSize' = remoteSize
               ELSE pc' = "plan" /\ fileSize' = remoteSize /\ ret' = ret
    /\ UNCHANGED notDl
    /\ UNCHANGED <<url, outputPath, num_workers, remoteSize, chunks, actualWorkers, i, tempFiles, tempData, sem, wg,
                   downloadErr, downloadedSize, task, dest, destBefore>>

\* 5. chunk size, chunk list and actualWorkers (lines 775-799); tempFiles is
\* made with one nil entry per chunk.
Plan ==
    /\ pc = "plan"
    /\ LET cs == calculateChunks(fileSize, ChunkSizeFor(fileSize, num_workers))
       IN  IF Len(cs) = 0
           THEN /\ ReturnEarly(Err("NoChunks", -1))
                /\ UNCHANGED <<chunks, actualWorkers, tempFiles, tempData, task>>
           ELSE /\ chunks' = cs
                /\ actualWorkers' = ActualWorkers(num_workers, Len(cs))
                /\ tempFiles' = [k \in 1..Len(cs) |-> "nil"]
                /\ tempData' = [k \in 1..Len(cs) |-> <<>>]
                /\ task' = [k \in 1..Len(cs) |-> NewTask]
                /\ pc' = "mktemp"
                /\ ret' = ret
    /\ i' = 0
    /\ UNCHANGED notDl
    /\ UNCHANGED <<url, outputPath, num_workers, remoteSize, fileSize,
                   sem, wg, downloadErr, downloadedSize, dest, destBefore>>

\* CleanupTemps that passes over the first entry of tempFiles.
CleanupTempsSkipsFirst(tf) ==
    [k \in 1..Len(tf) |-> IF tf[k] # "nil" /\ k > 1 THEN "removed" ELSE tf[k]]

\* The deferred function of lines 800-808: every non-nil temp file is closed
\* and removed.
CleanupTemps(tf) ==
    [k \in 1..Len(tf) |-> IF tf[k] # "nil" THEN "removed" ELSE tf[k]]

\* 6. one iteration of the os.CreateTemp loop (lines 809-815).
CreateTemp ==
    /\ pc = "mktemp"
    /\ \E ok \in BOOLEAN :
          IF ok
          THEN /\ tempFiles' = [tempFiles EXCEPT ![i + 1] = "open"]
               /\ i' = IF i + 1 = NChunks THEN 0 ELSE i + 1
               /\ pc' = IF i + 1 = NChunks THEN "launch" ELSE "mktemp"
               /\ ret' = ret
          ELSE /\ ReturnDeferred(Err("CreateTempError", i))
               /\ UNCHANGED <<tempFiles, i>>
    /\ UNCHANGED notDl
    /\ UNCHANGED <<url, outputPath, num_workers, remoteSize, fileSize,
                   chunks, actualWorkers, tempData, sem, wg,
                   downloadErr, downloadedSize, task, dest, destBefore>>

\* 7. one iteration of the launching loop (lines 824-845): take a slot of sem
\* (blocks while all are taken), wg.Add(1), start the goroutine of chunk i.
Launch ==
    /\ pc = "launch"
    /\ sem < actualWorkers
    /\ sem' = sem + 1
    /\ wg' = wg + 1
    /\ task' = [task EXCEPT ![i + 1].st = "Started"]
    /\ i' = IF i + 1 = NChunks THEN 0 ELSE i + 1
    /\ pc' = IF i + 1 = NChunks THEN "wait" ELSE "launch"
    /\ UNCHANGED notDl
    /\ UNCHANGED <<url, outputPath, num_workers, remoteSize, ret, fileSize, chunks, actualWorkers, tempFiles, tempData,
                   downloadErr, downloadedSize, dest, destBefore>>

\* ------------------------------------------------------- chunk goroutines
\* StoreErr that leaves the slot as it was.
StoreErrDropped(slot, e) == slot

\* atomic.Value.Store: the slot takes the stored value, whatever it held.
StoreErr(slot, e) == e

\* SkipsWork that never finds an error.
SkipsWorkNever(slot) == FALSE

\* if err := downloadErr.Load(); err != nil { return } (lines 834-836).
SkipsWork(slot) == slot # Nil

\* AddDownloaded with the update placed before the error test of the copy.
AddDownloadedAlways(cur, n, copyFailed) == cur + n

\* atomic.AddInt64(downloadedSize, n), reached only after a copy without error.
AddDownloaded(cur, n, copyFailed) == IF copyFailed THEN cur ELSE cur + n

\* The goroutine of chunk k begins (lines 833-836): it reads the error slot
\* and returns at once when an error is stored.
TaskBegin(k) ==
    /\ task[k].st = "Started"
    /\ task' = [task EXCEPT ![k].st = IF SkipsWork(downloadErr) THEN "Skipped"
                                                                  ELSE "Fetching"]
    /\ UNCHANGED notDl
    /\ UNCHANGED <<url, outputPath, num_workers, remoteSize, pc, ret,
                   fileSize, chunks, actualWorkers, i, tempFiles, tempData, sem, wg,
                   downloadErr, downloadedSize, dest, destBefore>>

\* LastAttempt allowing one more pass of the loop.
LastAttemptOneLater(retry) == retry = MaxAttempts

\* if retry == 2 { return err }: the failed pass was the last of the loop.
LastAttempt(retry) == retry = MaxAttempts - 1

\* TaskFile handing every goroutine the first temp file.
TaskFileShared(idx) == 1

\* tempFiles[idx] (line 839): the temp file goroutine idx hands to
\* downloadChunk is the one at its own index.
TaskFile(idx) == idx

\* An attempt of chunk k that failed: retry, or after the last attempt
\* downloadChunk returns the error and the goroutine stores it (line 841).
AttemptFailed(k) ==
    IF LastAttempt(task[k].retry)
    THEN /\ downloadErr' = StoreErr(downloadErr, Err("ChunkFailed", k - 1))
         /\ task' = [task EXCEPT ![k].st = "PermanentlyFailed"]
    ELSE /\ downloadErr' = downloadErr
         /\ task' = [task EXCEPT ![k].retry = @ + 1]

\* One pass of the retry loop of downloadChunk for chunk k (lines 1001-1038):
\* the ranged GET, the status test, the copy into the temp file at its current
\* offset (the end of what earlier passes wrote), and the counter update.
Attempt(k) ==
    /\ task[k].st = "Fetching"
    /\ \E resp \in ServerResponses(fileSize, chunks[k].start, chunks[k].end) :
          IF resp.err \/ (resp.status # StatusPartialContent /\ resp.status # StatusOK)
          THEN /\ AttemptFailed(k)
               /\ UNCHANGED <<tempData, downloadedSize>>
          ELSE \E out \in CopyOutcomes(resp.body) :
                  /\ tempData' = [tempData EXCEPT ![TaskFile(k)] = @ \o SubSeq(resp.body, 1, out.n)]
                  /\ downloadedSize' = AddDownloaded(downloadedSize, out.n, out.err)
                  /\ IF out.err
                     THEN AttemptFailed(k)
                     ELSE /\ task' = [task EXCEPT ![k].st = "Succeeded",
                                                  ![k].n = out.n,
                                                  ![k].status = resp.status]
                          /\ downloadErr' = downloadErr
    /\ UNCHANGED notDl
    /\ UNCHANGED <<url, outputPath, num_workers, remoteSize, pc, ret,
                   fileSize, chunks, actualWorkers, i, tempFiles, sem, wg,
                   dest, destBefore>>

TaskEnded(k) == task[k].st \in {"Succeeded", "PermanentlyFailed", "Skipped"}

\* ReleaseSlot that gives no slot back.
ReleaseSlotNever(taken) == taken

\* <-sem: one slot of the semaphore is given back.
ReleaseSlot(taken) == taken - 1

\* WgDone that leaves the counter as it was.
WgDoneSkipped(counter) == counter

\* wg.Done(): the WaitGroup counter goes down by one.
WgDone(counter) == counter - 1

\* The deferred function of the goroutine (lines 828-831): <-sem, wg.Done().
TaskExit(k) ==
    /\ TaskEnded(k)
    /\ ~task[k].fin
    /\ sem' = ReleaseSlot(sem)
    /\ wg' = WgDone(wg)
    /\ task' = [task EXCEPT ![k].fin = TRUE]
    /\ UNCHANGED notDl
    /\ UNCHANGED <<url, outputPath, num_workers, remoteSize, pc, ret,
                   fileSize, chunks, actualWorkers, i, tempFiles, tempData,
                   downloadErr, downloadedSize, dest, destBefore>>

\* ------------------------------------------------------ barrier and merge
\* MergeRuns without the test of the error slot.
MergeRunsAlways(slot) == TRUE

\* After the barrier the merge runs unless an error is stored (line 875).
MergeRuns(slot) == slot = Nil

\* BarrierOpen that lets the caller through at once.
BarrierOpenAtOnce(counter) == TRUE

\* wg.Wait() returns when the WaitGroup counter is zero.
BarrierOpen(counter) == counter = 0

\* 8. wg.Wait() returns and the error slot is read (lines 873-877).
Wait ==
    /\ pc = "wait"
    /\ BarrierOpen(wg)
    /\ IF MergeRuns(downloadErr)
       THEN pc' = "merge_create" /\ ret' = ret
       ELSE ReturnDeferred(downloadErr)
    /\ UNCHANGED notDl
    /\ UNCHANGED <<url, outputPath, num_workers, remoteSize, fileSize, chunks, actualWorkers, i, tempFiles, tempData, sem, wg,
                   downloadErr, downloadedSize, task, dest, destBefore>>

\* 9a. mergeChunks: os.Create(outputPath) makes the file or truncates it.
MergeCreate ==
    /\ pc = "merge_create"
    /\ \E ok \in BOOLEAN :
          IF ok
          THEN pc' = "merge_copy" /\ dest' = File(<<>>) /\ ret' = ret
          ELSE ReturnDeferred(Err("MergeFailed", -1)) /\ dest' = dest
    /\ i' = 0
    /\ UNCHANGED notDl
    /\ UNCHANGED <<url, outputPath, num_workers, remoteSize, fileSize, chunks, actualWorkers, tempFiles, tempData, sem, wg,
                   downloadErr, downloadedSize, task, destBefore>>

\* io.Copy(outFile, f) after f.Seek(0, io.SeekStart): the bytes of the temp
\* file go behind what outFile already holds.
AppendChunk(out, bytes) == out \o bytes

\* MergeSource walking the temp files from the last to the first.
MergeSourceReversed(data, idx) == data[Len(data) - idx]

\* The temp file the i-th pass of the merge loop reads (i counts from 0).
MergeSource(data, idx) == data[idx + 1]

\* 9b. one pass of the loop of mergeChunks (lines 1052-1061): the seek can
\* fail, the copy can fail after a proper prefix; after the last pass
\* mergeChunks and the call return nil.
MergeCopy ==
    /\ pc = "merge_copy"
    /\ \E seekOk \in BOOLEAN :
          IF ~seekOk
          THEN ReturnDeferred(Err("MergeFailed", i)) /\ UNCHANGED <<dest, i>>
          ELSE \E out \in CopyOutcomes(MergeSource(tempData, i)) :
                  /\ dest' = File(AppendChunk(dest.data,
                                     SubSeq(MergeSource(tempData, i), 1, out.n)))
                  /\ IF out.err
                     THEN ReturnDeferred(Err("MergeFailed", i)) /\ i' = i
                     ELSE IF i + 1 = NChunks
                          THEN ReturnDeferred(Nil) /\ i' = i
                          ELSE pc' = pc /\ ret' = ret /\ i' = i + 1
    /\ UNCHANGED notDl
    /\ UNCHANGED <<url, outputPath, num_workers, remoteSize, fileSize, chunks, actualWorkers, tempFiles, tempData, sem, wg,
                   downloadErr, downloadedSize, task, destBefore>>

\* 10. the deferred cleanup runs and the call returns ret.
Cleanup ==
    /\ pc = "cleanup"
    /\ tempFiles' = CleanupTemps(tempFiles)
    /\ pc' = "done"
    /\ UNCHANGED notDl
    /\ UNCHANGED <<url, outputPath, num_workers, remoteSize, ret, fileSize, chunks, actualWorkers, i, tempData, sem, wg,
                   downloadErr, downloadedSize, task, dest, destBefore>>

Init == DlInit /\ NotDlIdle

Next ==
    \/ Validate
    \/ GetOriginalFilename
    \/ ResolveOutputPath
    \/ GetFileSize
    \/ Plan
    \/ CreateTemp
    \/ Launch
    \/ \E k \in 1..NChunks : TaskBegin(k)
    \/ \E k \in 1..NChunks : Attempt(k)
    \/ \E k \in 1..NChunks : TaskExit(k)
    \/ Wait
    \/ MergeCreate
    \/ MergeCopy
    \/ Cleanup

Spec == Init /\ [][Next]_vars

\* Chunk planning alone, over a wider range of sizes and worker counts: the
\* call has passed size discovery with fileSize > 0 and num_workers > 0.
PlanInit ==
    /\ url = "http://host/app.exe"
    /\ outputPath = "out"
    /\ num_workers \in 1..MaxPlanWorkers
    /\ remoteSize \in 1..MaxPlanSize
    /\ fileSize = remoteSize
    /\ pc = "plan"
    /\ ret = NotReturned
    /\ chunks = <<>>
    /\ actualWorkers = 0
    /\ i = 0
    /\ tempFiles = <<>>
    /\ tempData = <<>>
    /\ sem = 0
    /\ wg = 0
    /\ downloadErr = Nil
    /\ downloadedSize = 0
    /\ task = <<>>
    /\ dest = NoFile
    /\ destBefore = dest
    /\ NotDlIdle

PlanNext == Plan

SpecPlan == PlanInit /\ [][PlanNext]_vars

\* ------------------------------------------------------ progress goroutine
\* int(float64(cur) / float64(fileSize) * 100): the conversion truncates, and
\* for the sizes followed here the float64 product has the integer part of
\* the exact quotient.
Percent(cur, size) == (cur * 100) \div size

\* ProgStops without the test of the error slot.
ProgStopsAtFullOnly(progress, slot) == progress >= 100

\* The two returns of the ticker loop (lines 860-868).
ProgStops(progress, slot) == progress >= 100 \/ slot # Nil

\* The num_workers of the calls followed with their progress goroutine: one
\* chunk goroutine, or two that interleave with each other and the ticker.
ProgWorkers == {1, 2}

\* A call with valid arguments and no file at the target path.
ProgInit ==
    /\ url = "http://host/app.exe"
    /\ outputPath = "out"
    /\ num_workers \in ProgWorkers
    /\ remoteSize \in 1..MaxProgSize
    /\ pc = "validate"
    /\ ret = NotReturned
    /\ fileSize = 0
    /\ chunks = <<>>
    /\ actualWorkers = 0
    /\ i = 0
    /\ tempFiles = <<>>
    /\ tempData = <<>>
    /\ sem = 0
    /\ wg = 0
    /\ downloadErr = Nil
    /\ downloadedSize = 0
    /\ task = <<>>
    /\ dest = NoFile
    /\ destBefore = dest
    /\ NotDlIdle

\* The go statement of line 848, between the launch loop and wg.Wait().
ProgStart ==
    /\ pc = "wait"
    /\ prog = "none"
    /\ prog' = "ticking"
    /\ UNCHANGED <<lastProgress, dlVars, notProg>>

\* wg.Wait() and what follows it come after the go statement.
ProgWait ==
    /\ prog # "none"
    /\ Wait

\* A tick (lines 851-858): the counter is loaded and the percentage goes to
\* updateProgress.
ProgSample ==
    /\ prog = "ticking"
    /\ lastProgress' = Percent(downloadedSize, fileSize)
    /\ prog' = "sampled"
    /\ UNCHANGED <<dlVars, notProg>>

\* Lines 860-868: return at 100 or when the error slot holds an error, else
\* wait for the next tick.
ProgCheck ==
    /\ prog = "sampled"
    /\ prog' = IF ProgStops(lastProgress, downloadErr) THEN "stopped" ELSE "ticking"
    /\ UNCHANGED <<lastProgress, dlVars, notProg>>

\* The steps of the calling goroutine.
MainStep ==
    \/ Validate
    \/ GetOriginalFilename
    \/ ResolveOutputPath
    \/ GetFileSize
    \/ Plan
    \/ CreateTemp
    \/ Launch
    \/ ProgStart
    \/ ProgWait
    \/ MergeCreate
    \/ MergeCopy
    \/ Cleanup

\* The steps of the goroutine of chunk k.
TaskStep(k) ==
    /\ k \in 1..NChunks
    /\ (TaskBegin(k) \/ Attempt(k) \/ TaskExit(k))

\* The steps of the progress goroutine.
ProgStep == ProgSample \/ ProgCheck

ProgNext ==
    \/ MainStep
    \/ \E k \in ProgWorkers : TaskStep(k)
    \/ ProgStep

SpecProg == ProgInit /\ [][ProgNext]_vars

\* The Go scheduler runs every goroutine that can run, the ticker keeps
\* ticking, and every HTTP attempt comes to an end.
ProgFairness ==
    /\ WF_vars(MainStep)
    /\ \A k \in ProgWorkers : WF_vars(TaskStep(k))
    /\ WF_vars(ProgStep)

SpecProgFair == ProgInit /\ [][ProgNext]_vars /\ ProgFairness

\* ------------------------------------------------------------ target path
\* getOriginalFilename: the filename of Content-Disposition when it is not
\* empty, else the base of the URL path unless that is "", "/" or ".", else
\* the default name.
getOriginalFilename(disp, base) ==
    IF disp # "" THEN disp
    ELSE IF base # "" /\ base # "/" /\ base # "." THEN base
    ELSE "downloaded_file"

\* resolveOutputPath: filepath.Join(outputPath, filename) for an existing
\* directory, else outputPath itself.  A path is its list of elements.
resolveOutputPath(o, filename, isDir) ==
    IF isDir THEN <<o, filename>> ELSE <<o>>

PathInit ==
    /\ hdrName \in {"", "setup.exe"}
    /\ urlBase \in {"app.exe", "/", "."}
    /\ outArg \in {"out", "downloads"}
    /\ outIsDir \in BOOLEAN
    /\ ppc = "filename"
    /\ originalFilename = ""
    /\ targetPath = <<>>
    /\ printed = <<>>
    /\ result = Result(NotReturned, <<>>)
    /\ NotPathIdle

\* return err: the function has the single result error.
PathFail(kind) ==
    /\ ppc' = "done"
    /\ result' = Result(Err(kind, -1), <<>>)

\* Lines 754-758: the HEAD request fails, or the name is taken.
PathFilename ==
    /\ ppc = "filename"
    /\ \E ok \in BOOLEAN :
          IF ok
          THEN /\ originalFilename' = getOriginalFilename(hdrName, urlBase)
               /\ ppc' = "resolve"
               /\ result' = result
          ELSE PathFail("FilenameError") /\ originalFilename' = originalFilename
    /\ UNCHANGED <<hdrName, urlBase, outArg, outIsDir, targetPath, printed>>
    /\ UNCHANGED notPath

\* Lines 760-764: for a path that is no directory os.MkdirAll can fail.
PathResolve ==
    /\ ppc = "resolve"
    /\ \E mkdirOk \in BOOLEAN :
          IF outIsDir \/ mkdirOk
          THEN /\ targetPath' = resolveOutputPath(outArg, originalFilename, outIsDir)
               /\ ppc' = "transfer"
               /\ result' = result
          ELSE PathFail("ResolveError") /\ targetPath' = targetPath
    /\ UNCHANGED <<hdrName, urlBase, outArg, outIsDir, originalFilename, printed>>
    /\ UNCHANGED notPath

\* Lines 766-883 as one step: size discovery, chunk download and merge into
\* targetPath end without an error, or one of them returns its error.
PathTransfer ==
    /\ ppc = "transfer"
    /\ \E ok \in BOOLEAN :
          IF ok THEN ppc' = "return" /\ result' = result
          ELSE PathFail("TransferError")
    /\ UNCHANGED <<hdrName, urlBase, outArg, outIsDir, originalFilename,
                   targetPath, printed>>
    /\ UNCHANGED notPath

\* Lines 885-886: the target path goes to standard output; return nil.
PathReturn ==
    /\ ppc = "return"
    /\ printed' = targetPath
    /\ result' = Result(Nil, <<>>)
    /\ ppc' = "done"
    /\ UNCHANGED <<hdrName, urlBase, outArg, outIsDir, originalFilename, targetPath>>
    /\ UNCHANGED notPath

PathNext ==
    \/ PathFilename
    \/ PathResolve
    \/ PathTransfer
    \/ PathReturn

SpecPath == PathInit /\ [][PathNext]_vars

\* ------------------------------------------------------- trailer locator
\* magicTrailer, scaled: like the eight letters of "SFXMAGIC" its bytes are
\* pairwise different, so two occurrences never overlap.
magicTrailer == <<1, 2>>
trailerSize == LenWidth + Len(magicTrailer)

\* The bytes stub, archive and appended data are drawn from: the bytes of
\* the marker, so that the marker turns up in them.
ContentByte == {1, 2}

\* Every value of a byte.
Byte == 0..(ByteBase - 1)

SeqsUpTo(S, n) == UNION {[1..k -> S] : k \in 0..n}

RECURSIVE Pow(_, _)
Pow(b, e) == IF e = 0 THEN 1 ELSE b * Pow(b, e - 1)

\* The number of values of the unsigned length field (2^64 in the code).
UintRange == Pow(ByteBase, LenWidth)

\* binary.LittleEndian.Uint64: the first byte is the least significant.
RECURSIVE LittleEndianUint(_)
LittleEndianUint(bs) ==
    IF bs = <<>> THEN 0 ELSE Head(bs) + ByteBase * LittleEndianUint(Tail(bs))

\* The LenWidth bytes that decode to v: the length field the packer writes.
LittleEndianBytes(v) ==
    [k \in 1..LenWidth |-> (v \div Pow(ByteBase, k - 1)) % ByteBase]

\* int64(u) of an unsigned value: the upper half of the range is negative.
ToSigned(u) == IF 2 * u >= UintRange THEN u - UintRange ELSE u

\* Signed arithmetic of the width of the length field wraps around.
WrapSigned(x) == ToSigned(x % UintRange)

\* The host file: stub bytes, the archive, its length, the marker, and
\* whatever was appended to the file afterwards.
HostFile(prefix, archive, tail) ==
    prefix \o archive \o LittleEndianBytes(Len(archive)) \o magicTrailer \o tail

\* LastIndex scanning forward and stopping at the first occurrence.
LastIndexTakesFirst(b, sub) ==
    LET occ == {j \in 0..(Len(b) - Len(sub)) : SubSeq(b, j + 1, j + Len(sub)) = sub}
    IN  IF occ = {} THEN -1 ELSE CHOOSE j \in occ : \A m \in occ : j <= m

\* bytes.LastIndex: the offset of the last occurrence of sub in b, or -1.
LastIndex(b, sub) ==
    LET occ == {j \in 0..(Len(b) - Len(sub)) : SubSeq(b, j + 1, j + Len(sub)) = sub}
    IN  IF occ = {} THEN -1 ELSE CHOOSE j \in occ : \A m \in occ : j >= m

XResult(kind, data) == [kind |-> kind, data |-> data]

SfxInit ==
    /\ embedded \in SeqsUpTo(ContentByte, MaxArchive)
    /\ appended \in SeqsUpTo(ContentByte, SearchLimit)
    /\ \E prefix \in SeqsUpTo(ContentByte, MaxPrefix) :
          exe = HostFile(prefix, embedded, appended)
    /\ xpc = "stat"
    /\ buf = <<>>
    /\ startOffset = 0
    /\ archiveLen = 0
    /\ archiveStartOffset = 0
    /\ ioLog = <<>>
    /\ xret = XResult("running", <<>>)
    /\ NotSfxIdle

\* Any executable of at least trailerSize bytes (a running program is never
\* shorter): the host files of SfxInit, and files of arbitrary bytes, with no
\* marker, a marker at any place, or any length field in front of it.
SfxAnyInit ==
    /\ \/ /\ embedded \in SeqsUpTo(ContentByte, MaxArchive)
          /\ appended \in SeqsUpTo(ContentByte, SearchLimit)
          /\ \E prefix \in SeqsUpTo(ContentByte, MaxPrefix) :
                exe = HostFile(prefix, embedded, appended)
       \/ /\ embedded = <<>>
          /\ appended = <<>>
          /\ exe \in UNION {[1..k -> Byte] : k \in trailerSize..MaxRaw}
    /\ xpc = "stat"
    /\ buf = <<>>
    /\ startOffset = 0
    /\ archiveLen = 0
    /\ archiveStartOffset = 0
    /\ ioLog = <<>>
    /\ xret = XResult("running", <<>>)
    /\ NotSfxIdle

\* An entry of ioLog: f.Seek(arg, io.SeekStart), or io.ReadFull of arg bytes.
IoSeek(off) == [op |-> "seek", arg |-> off]
IoRead(n) == [op |-> "read", arg |-> n]

\* ReadSize taking the whole file as the window.
ReadSizeWholeFile(size) == size

\* readSize: searchLimit, or the file size when the file is smaller.
ReadSize(size) == Min(SearchLimit, size)

\* extractSelf returns.
XReturn(kind, data) ==
    /\ xpc' = "done"
    /\ xret' = XResult(kind, data)

\* Lines 1721-1743: the size test, readSize and the seek to the window.
SfxStat ==
    /\ xpc = "stat"
    /\ IF Len(exe) < trailerSize
       THEN XReturn("FileTooSmall", <<>>) /\ UNCHANGED <<startOffset, ioLog>>
       ELSE /\ startOffset' = Len(exe) - ReadSize(Len(exe))
            /\ ioLog' = Append(ioLog, IoSeek(startOffset'))
            /\ xpc' = "readtail"
            /\ xret' = xret
    /\ UNCHANGED <<exe, embedded, appended, buf, archiveLen, archiveStartOffset>>
    /\ UNCHANGED notSfx

\* Lines 1745-1748: io.ReadFull of the window, from startOffset to the end.
SfxReadTail ==
    /\ xpc = "readtail"
    /\ buf' = SubSeq(exe, startOffset + 1, Len(exe))
    /\ ioLog' = Append(ioLog, IoRead(Len(buf')))
    /\ xpc' = "locate"
    /\ UNCHANGED <<exe, embedded, appended, startOffset, archiveLen,
                   archiveStartOffset, xret>>
    /\ UNCHANGED notSfx

\* HeaderTruncated asking for one byte less in front of the marker.
HeaderTruncatedOneShort(idx) == idx < LenWidth - 1

\* if idx < 8 (line 1759): the window holds fewer bytes in front of the
\* marker than the length field has.
HeaderTruncated(idx) == idx < LenWidth

\* Lines 1750-1778: search the marker, decode the length, compute the offsets.
\* The slice buf[lenStart : lenStart+8] panics for a negative lenStart.
SfxLocate ==
    /\ xpc = "locate"
    /\ LET idx == LastIndex(buf, magicTrailer)
           lenStart == idx - LenWidth
           len == LittleEndianUint(SubSeq(buf, lenStart + 1, lenStart + LenWidth))
           archiveEndOffset == startOffset + lenStart
           start == WrapSigned(archiveEndOffset - ToSigned(len))
       IN  IF idx = -1
           THEN XReturn("MagicNotFound", <<>>)
                /\ UNCHANGED <<archiveLen, archiveStartOffset>>
           ELSE IF HeaderTruncated(idx)
           THEN XReturn("TruncatedHeader", <<>>)
                /\ UNCHANGED <<archiveLen, archiveStartOffset>>
           ELSE IF lenStart < 0
           THEN XReturn("Panic", <<>>)
                /\ UNCHANGED <<archiveLen, archiveStartOffset>>
           ELSE /\ archiveLen' = len
                /\ archiveStartOffset' = start
                /\ IF start < 0
                   THEN XReturn("InvalidOffset", <<>>)
                   ELSE xpc' = "readarchive" /\ xret' = xret
    /\ UNCHANGED <<exe, embedded, appended, buf, startOffset, ioLog>>
    /\ UNCHANGED notSfx

\* Lines 1780-1790: seek to the archive and io.ReadFull of archiveLen bytes.
\* make([]byte, archiveLen) panics for a length int cannot hold; ReadFull
\* fails when the file ends before archiveLen bytes are read.
SfxReadArchive ==
    /\ xpc = "readarchive"
    /\ IF ToSigned(archiveLen) < 0
       THEN /\ XReturn("Panic", <<>>)
            /\ ioLog' = Append(ioLog, IoSeek(archiveStartOffset))
       ELSE /\ ioLog' = ioLog \o <<IoSeek(archiveStartOffset), IoRead(archiveLen)>>
            /\ IF archiveStartOffset + archiveLen > Len(exe)
               THEN XReturn("ReadError", <<>>)
               ELSE XReturn("ok", SubSeq(exe, archiveStartOffset + 1,
                                         archiveStartOffset + archiveLen))
    /\ UNCHANGED <<exe, embedded, appended, buf, startOffset, archiveLen,
                   archiveStartOffset>>
    /\ UNCHANGED notSfx

SfxNext ==
    \/ SfxStat
    \/ SfxReadTail
    \/ SfxLocate
    \/ SfxReadArchive

SpecSfx == SfxInit /\ [][SfxNext]_vars

\* extractSelf on any executable.
SpecSfxAny == SfxAnyInit /\ [][SfxNext]_vars

\* ------------------------------------------------------- installer window
\* The window is open: the load goroutine starts, the directory field is
\* empty, meta holds the built-in defaults.
GuiInit ==
    /\ stub \in {"download", "offline"}
    /\ archiveHasMeta \in BOOLEAN
    /\ metaHasUrl \in BOOLEAN
    /\ metaHasUrl => (archiveHasMeta /\ stub = "download")
    /\ lpc = "extract"
    /\ filesToInstall = "nil"
    /\ meta = "default"
    /\ installDirEdit = ""
    /\ page = "install"
    /\ ipc = "idle"
    /\ ierr = Nil
    /\ stepFailed = "none"
    /\ metaAtStart = "none"
    /\ installDir = ""
    /\ installedDir = ""
    /\ NotGuiIdle

\* Load goroutine: archiveData, err = extractSelf() (part_001 lines 1286-1290).
LoadExtract ==
    /\ lpc = "extract"
    /\ \E ok \in BOOLEAN : lpc' = IF ok THEN "untar" ELSE "failed"
    /\ UNCHANGED <<stub, archiveHasMeta, metaHasUrl, filesToInstall, meta,
                   installDirEdit, page, ipc, ierr, stepFailed, metaAtStart, installDir,
                   installedDir>>
    /\ UNCHANGED notGui

\* filesToInstall, err = untarGzToMemory(archiveData) (lines 1293-1298).
LoadUntar ==
    /\ lpc = "untar"
    /\ \E ok \in BOOLEAN :
          IF ok THEN lpc' = "parse" /\ filesToInstall' = "loaded"
          ELSE lpc' = "failed" /\ filesToInstall' = "nil"
    /\ UNCHANGED <<stub, archiveHasMeta, metaHasUrl, meta, installDirEdit, page,
                   ipc, ierr, stepFailed, metaAtStart, installDir, installedDir>>
    /\ UNCHANGED notGui

\* json.Unmarshal(m.Data, &meta) when meta.json is found (lines 1300-1303).
LoadParse ==
    /\ lpc = "parse"
    /\ meta' = IF archiveHasMeta THEN "fromArchive" ELSE meta
    /\ lpc' = "setdir"
    /\ UNCHANGED <<stub, archiveHasMeta, metaHasUrl, filesToInstall,
                   installDirEdit, page, ipc, ierr, stepFailed, metaAtStart, installDir,
                   installedDir>>
    /\ UNCHANGED notGui

\* installDirEdit.SetText(defaultInstallDir) (lines 1312-1319).
LoadSetDir ==
    /\ lpc = "setdir"
    /\ installDirEdit' = "default"
    /\ lpc' = "done"
    /\ UNCHANGED <<stub, archiveHasMeta, metaHasUrl, filesToInstall, meta, page,
                   ipc, ierr, stepFailed, metaAtStart, installDir, installedDir>>
    /\ UNCHANGED notGui

\* The user types a directory into the field or picks one with the browse
\* button (browseForInstallDir).
UserSetsDir ==
    /\ page = "install"
    /\ ipc = "idle"
    /\ installDirEdit' = "typed"
    /\ UNCHANGED <<stub, archiveHasMeta, metaHasUrl, lpc, filesToInstall, meta,
                   page, ipc, ierr, stepFailed, metaAtStart, installDir, installedDir>>
    /\ UNCHANGED notGui

\* The test of filesToInstall at the head of startInstall, which only the
\* offline stub has (part_002 lines 331-334).
LoadGate(s, files) == s = "offline" /\ files = "nil"

\* startInstall, on the click (lines 1349-1370): refused with a message box
\* for an empty directory or a closed load gate, else the progress page is
\* shown and the install goroutine starts.
StartInstall ==
    /\ page = "install"
    /\ ipc = "idle"
    /\ IF installDirEdit = "" \/ LoadGate(stub, filesToInstall)
       THEN UNCHANGED <<page, ipc, ierr, stepFailed, metaAtStart, installDir>>
       ELSE /\ page' = "progress"
            /\ ipc' = "clean"
            /\ ierr' = Nil
            /\ stepFailed' = "none"
            /\ metaAtStart' = meta
            /\ installDir' = installDirEdit
    /\ UNCHANGED <<stub, archiveHasMeta, metaHasUrl, lpc, filesToInstall, meta,
                   installDirEdit, installedDir>>
    /\ UNCHANGED notGui

\* What the deferred function sees in err after "if err := f(); err != nil
\* { return }": the := declares a new err inside the if, the outer one keeps
\* its value.
ShadowedErr(outer, e) == outer

\* What it sees after "err = errors.New(...); return".
AssignedErr(outer, e) == e

\* cleanInstallDir(installDir) (lines 1407-1410).
InstallClean ==
    /\ ipc = "clean"
    /\ \E ok \in BOOLEAN :
          IF ok THEN ipc' = "acquire" /\ UNCHANGED <<ierr, stepFailed>>
          ELSE /\ ipc' = "deferred"
               /\ stepFailed' = "clean"
               /\ ierr' = ShadowedErr(ierr, Err("CleanError", -1))
    /\ UNCHANGED <<stub, archiveHasMeta, metaHasUrl, lpc, filesToInstall, meta,
                   installDirEdit, page, metaAtStart, installDir, installedDir>>
    /\ UNCHANGED notGui

\* Lines 1412-1443: with a DownloadURL in meta the download, else the test
\* of filesToInstall (download stub only) and writeFilesWithProgress.
InstallAcquire ==
    /\ ipc = "acquire"
    /\ IF stub = "download" /\ meta = "fromArchive" /\ metaHasUrl
       THEN \E ok \in BOOLEAN :
               IF ok THEN ipc' = "finish" /\ UNCHANGED <<ierr, stepFailed>>
               ELSE /\ ipc' = "deferred"
                    /\ stepFailed' = "download"
                    /\ ierr' = ShadowedErr(ierr, Err("DownloadError", -1))
       ELSE IF stub = "download" /\ filesToInstall = "nil"
       THEN /\ ipc' = "deferred"
            /\ stepFailed' = "notloaded"
            /\ ierr' = AssignedErr(ierr, Err("NotLoaded", -1))
       ELSE \E ok \in BOOLEAN :
               IF ok THEN ipc' = "finish" /\ UNCHANGED <<ierr, stepFailed>>
               ELSE /\ ipc' = "deferred"
                    /\ stepFailed' = "write"
                    /\ ierr' = ShadowedErr(ierr, Err("WriteError", -1))
    /\ UNCHANGED <<stub, archiveHasMeta, metaHasUrl, lpc, filesToInstall, meta,
                   installDirEdit, page, metaAtStart, installDir, installedDir>>
    /\ UNCHANGED notGui

\* Lines 1445-1481: exe path, shortcuts, uninstaller, registry; their errors
\* are reported in the status line and ignored.
InstallFinish ==
    /\ ipc = "finish"
    /\ ipc' = "deferred"
    /\ UNCHANGED <<stub, archiveHasMeta, metaHasUrl, lpc, filesToInstall, meta,
                   installDirEdit, page, ierr, stepFailed, metaAtStart, installDir,
                   installedDir>>
    /\ UNCHANGED notGui

\* The deferred function (lines 1375-1405): with err set back to the install
\* page and a message box, else the result page and the recorded result.
InstallDeferred ==
    /\ ipc = "deferred"
    /\ IF ierr # Nil
       THEN page' = "install" /\ installedDir' = installedDir
       ELSE page' = "result" /\ installedDir' = installDir
    /\ ipc' = "idle"
    /\ UNCHANGED <<stub, archiveHasMeta, metaHasUrl, lpc, filesToInstall, meta,
                   installDirEdit, ierr, stepFailed, metaAtStart, installDir>>
    /\ UNCHANGED notGui

GuiNext ==
    \/ LoadExtract
    \/ LoadUntar
    \/ LoadParse
    \/ LoadSetDir
    \/ UserSetsDir
    \/ StartInstall
    \/ InstallClean
    \/ InstallAcquire
    \/ InstallFinish
    \/ InstallDeferred

SpecGui == GuiInit /\ [][GuiNext]_vars

\* ------------------------------------------------------------ unpacking
\* Entry names are lists of characters, so that appending "/" shows.
TarNames == {<<"a">>, <<"d">>}

\* What tr.Next() and the copy of the body can yield for one entry: a
\* regular file (whose body may fail to decode), a directory, an entry of
\* another kind, or a header that fails to decode.
TarItems ==
    [typeflag : {"reg"}, name : TarNames, mode : {420, 493},
     data : {<<>>, <<5>>}, fault : {"none", "body"}]
    \cup [typeflag : {"dir"}, name : TarNames, mode : {493, 448},
          data : {<<>>}, fault : {"none"}]
    \cup [typeflag : {"symlink"}, name : TarNames, mode : {511},
          data : {<<>>}, fault : {"none"}]
    \cup [typeflag : {"reg"}, name : {<<"a">>}, mode : {420},
          data : {<<>>}, fault : {"header"}]

TarInit ==
    /\ gzOk \in BOOLEAN
    /\ stream \in SeqsUpTo(TarItems, MaxEntries)
    /\ tpc = "open"
    /\ tpos = 0
    /\ outFiles = <<>>
    /\ tret = [files |-> <<>>, err |-> NotReturned]
    /\ NotTarIdle

inMemoryFile(name, mode, data) == [Name |-> name, Mode |-> mode, Data |-> data]

\* EntriesFor taking every kind that is no directory for a regular file.
EntriesForAnyKind(h) ==
    IF h.typeflag = "dir"
    THEN <<inMemoryFile(Append(h.name, "/"), h.mode, <<>>)>>
    ELSE <<inMemoryFile(h.name, h.mode, h.data)>>

\* The switch on h.Typeflag (lines 1623-1644): what is appended to out.
EntriesFor(h) ==
    IF h.typeflag = "reg"
    THEN <<inMemoryFile(h.name, h.mode, h.data)>>
    ELSE IF h.typeflag = "dir"
    THEN <<inMemoryFile(Append(h.name, "/"), h.mode, <<>>)>>
    ELSE <<>>

\* Aborted that hands back what was decoded so far.
AbortedKeepsEntries(files) == files

\* return nil, err: the slice built so far is dropped.
Aborted(files) == <<>>

\* untarGzToMemory returns.
TarReturn(files, e) ==
    /\ tpc' = "done"
    /\ tret' = [files |-> files, err |-> e]

\* gzip.NewReader and tar.NewReader (lines 1607-1613).
TarOpen ==
    /\ tpc = "open"
    /\ IF gzOk THEN tpc' = "next" /\ tret' = tret
       ELSE TarReturn(Aborted(outFiles), Err("GzipError", -1))
    /\ UNCHANGED <<gzOk, stream, tpos, outFiles>>
    /\ UNCHANGED notTar

\* One pass of the loop (lines 1614-1645): io.EOF ends it and out is
\* returned; another error of tr.Next or of the copy returns nil and the error.
TarNext ==
    /\ tpc = "next"
    /\ IF tpos = Len(stream)
       THEN TarReturn(outFiles, Nil) /\ UNCHANGED <<tpos, outFiles>>
       ELSE LET h == stream[tpos + 1]
            IN  IF h.fault = "header"
                THEN /\ TarReturn(Aborted(outFiles), Err("TarError", tpos))
                     /\ UNCHANGED <<tpos, outFiles>>
                ELSE IF h.typeflag = "reg" /\ h.fault = "body"
                THEN /\ TarReturn(Aborted(outFiles), Err("CopyError", tpos))
                     /\ UNCHANGED <<tpos, outFiles>>
                ELSE /\ outFiles' = outFiles \o EntriesFor(h)
                     /\ tpos' = tpos + 1
                     /\ UNCHANGED <<tpc, tret>>
    /\ UNCHANGED <<gzOk, stream>>
    /\ UNCHANGED notTar

TarNextStep == TarOpen \/ TarNext

SpecTar == TarInit /\ [][TarNextStep]_vars

\* ------------------------------------------------------- moving a file
\* The contents a file handed to moveOrCopyFile can have.
MoveContents == SeqsUpTo({0, 1}, MaxMoveLen)

\* moveOrCopyFile(src, dst) is called: src is a file (or is missing), dst is
\* missing or a file left by an earlier install.
MvInit ==
    /\ srcFile \in {NoFile} \cup {File(c) : c \in MoveContents}
    /\ dstFile \in {NoFile, File(OldContent), File(<<>>)}
    /\ srcBefore = srcFile
    /\ dstBefore = dstFile
    /\ mvpc = "remove"
    /\ mvret = NotReturned
    /\ NotMvIdle

\* moveOrCopyFile returns.
MvReturn(e) ==
    /\ mvpc' = "done"
    /\ mvret' = e

\* _ = os.Remove(dst) (line 108): the file goes, or the removal fails and
\* the error is dropped.
MvRemove ==
    /\ mvpc = "remove"
    /\ \E ok \in BOOLEAN :
          dstFile' = IF ok THEN NoFile ELSE dstFile
    /\ mvpc' = "rename"
    /\ UNCHANGED <<srcFile, srcBefore, dstBefore, mvret>>
    /\ UNCHANGED notMv

\* os.Rename(src, dst) (lines 111-113): on success dst holds what src held
\* and src is gone; it fails when src is missing and can fail otherwise
\* (another volume, a locked file), and then the copy is tried.
MvRename ==
    /\ mvpc = "rename"
    /\ \E ok \in BOOLEAN :
          IF ok /\ srcFile.exists
          THEN /\ dstFile' = srcFile
               /\ srcFile' = NoFile
               /\ MvReturn(Nil)
          ELSE /\ mvpc' = "open"
               /\ UNCHANGED <<srcFile, dstFile, mvret>>
    /\ UNCHANGED <<srcBefore, dstBefore>>
    /\ UNCHANGED notMv

\* copyFile up to the creation of dst (lines 124-142): os.Open(src), which
\* fails for a missing file, os.MkdirAll of the parent directory, and
\* os.OpenFile with O_CREATE and O_TRUNC, which leaves dst empty.
MvOpen ==
    /\ mvpc = "open"
    /\ \E openOk \in BOOLEAN, mkdirOk \in BOOLEAN, createOk \in BOOLEAN :
          IF ~(openOk /\ srcFile.exists)
          THEN MvReturn(Err("OpenSrc", -1)) /\ dstFile' = dstFile
          ELSE IF ~mkdirOk
          THEN MvReturn(Err("MkdirDst", -1)) /\ dstFile' = dstFile
          ELSE IF ~createOk
          THEN MvReturn(Err("CreateDst", -1)) /\ dstFile' = dstFile
          ELSE mvpc' = "copy" /\ dstFile' = File(<<>>) /\ mvret' = mvret
    /\ UNCHANGED <<srcFile, srcBefore, dstBefore>>
    /\ UNCHANGED notMv

\* io.Copy(out, in) (lines 144-147): the whole of src, or a proper prefix of
\* it and an error.
MvCopy ==
    /\ mvpc = "copy"
    /\ \E c \in CopyOutcomes(srcFile.data) :
          /\ dstFile' = File(SubSeq(srcFile.data, 1, c.n))
          /\ MvReturn(IF c.err THEN Err("Copy", -1) ELSE Nil)
    /\ UNCHANGED <<srcFile, srcBefore, dstBefore>>
    /\ UNCHANGED notMv

MvNext == MvRemove \/ MvRename \/ MvOpen \/ MvCopy

SpecMv == MvInit /\ [][MvNext]_vars

\* ================================================================ claims
Returned == pc = "done"
ReturnedOk == pc = "done" /\ ret = Nil

\* C1: whenever DownloadFileByConcurrent returns success, the destination
\* file is byte-identical to the remote resource.
C1_DestIdenticalToRemote ==
    ReturnedOk => dest = File(Remote(fileSize))

\* C2: for fileSize > 0 and num_workers > 0 the planned chunks cover every
\* byte offset of [0, fileSize) exactly once, hold no offset outside it, and
\* their starts grow strictly with the list position.
C2_ChunksPartitionFile ==
    pc = "mktemp" =>
        /\ \A o \in 0..(fileSize - 1) :
              Cardinality({k \in 1..NChunks : chunks[k].start <= o /\ o <= chunks[k].end}) = 1
        /\ \A k \in 1..NChunks :
              0 <= chunks[k].start /\ chunks[k].start <= chunks[k].end
                                   /\ chunks[k].end <= fileSize - 1
        /\ \A k \in 1..(NChunks - 1) : chunks[k].start < chunks[k + 1].start

C2_Witness ==
    /\ pc = "mktemp"
    /\ NChunks >= 3
    /\ chunks[NChunks].end - chunks[NChunks].start < chunks[1].end - chunks[1].start
    /\ fileSize % num_workers # 0

\* C3: once a permanent chunk failure is recorded in the error slot, no later
\* failure replaces it, so the call returns the failure recorded first.
C3_FirstErrorKept ==
    [][downloadErr # Nil => downloadErr' = downloadErr]_vars

\* C4: when an attempt of a chunk failed during the copy after writing bytes
\* to the temp file and a later attempt succeeds on a partial-content answer,
\* the temp file holds exactly the chunk's byte range, nothing left over.
C4_NoLeftoverAfterRetry ==
    [][\A k \in 1..NChunks :
          (/\ task[k].st = "Fetching"
           /\ tempData[k] # <<>>
           /\ task'[k].st = "Succeeded"
           /\ task'[k].status = StatusPartialContent)
          => tempData'[k] = RangeBytes(fileSize, chunks[k].start, chunks[k].end)]_vars

\* C5: a chunk that failed on all its attempts makes the call return the
\* recorded error without merging: the destination is as it was before the
\* call and every chunk temp file is removed.
C5_FailureSkipsMerge ==
    (Returned /\ \E k \in 1..NChunks : task[k].st = "PermanentlyFailed")
    => /\ ret = downloadErr
       /\ ret.kind = "ChunkFailed"
       /\ dest = destBefore
       /\ \A k \in 1..NChunks : tempFiles[k] = "removed"

C5_Witness ==
    /\ Returned
    /\ destBefore = File(OldContent)
    /\ \E k \in 1..NChunks : task[k].st = "PermanentlyFailed"
    /\ \E k \in 1..NChunks : task[k].st = "Succeeded" /\ tempData[k] # <<>>
                             /\ tempFiles[k] = "removed"

\* C6: on every exit path after temp-file creation began, no chunk temp file
\* created by the call is left open or on disk when the call returns.
C6_TempFilesRemoved ==
    Returned => \A k \in 1..Len(tempFiles) : tempFiles[k] \in {"nil", "removed"}

C6_Witness ==
    /\ Returned
    /\ ret = Err("CreateTempError", 1)
    /\ tempFiles = <<"removed", "nil">>

\* C7: a successful merge leaves in the destination the temp files
\* concatenated in ascending chunk index, whatever order the tasks ended in.
C7_MergeInIndexOrder ==
    ReturnedOk => dest = File(Concat(tempData, NChunks))

C7_Witness ==
    /\ ReturnedOk
    /\ NChunks >= 2
    /\ tempData[1] # tempData[2]
    /\ task[1].retry > task[2].retry
    /\ dest = File(Remote(fileSize))

\* C8: the transferred-bytes counter grows only in the step in which an
\* attempt succeeds, by the bytes that attempt copied; once every chunk has
\* succeeded it is the sum of those byte counts, one per chunk.
C8_CounterCountsSuccessOnly ==
    /\ []((\A k \in 1..NChunks : task[k].st = "Succeeded")
          => downloadedSize = SumTo([k \in 1..NChunks |-> task[k].n], NChunks))
    /\ [][downloadedSize' # downloadedSize =>
            \E k \in 1..NChunks :
                /\ task[k].st = "Fetching"
                /\ task'[k].st = "Succeeded"
                /\ task'[k].n = Len(tempData'[k]) - Len(tempData[k])
                /\ downloadedSize' = downloadedSize + task'[k].n]_vars

C8_Witness ==
    \E k \in 1..NChunks :
        /\ task[k].st = "Succeeded"
        /\ task[k].retry = MaxAttempts - 1
        /\ Len(tempData[k]) > task[k].n
        /\ downloadedSize = task[k].n

\* C9: whenever the call returns success the destination holds exactly
\* fileSize bytes, also when ranged GETs are answered with status 200; stated
\* here for the calls in which every chunk succeeded at its first attempt.
C9_DestSizeIsFileSize ==
    (ReturnedOk /\ \A k \in 1..NChunks : task[k].retry = 0)
    => Len(dest.data) = fileSize

\* The marker occurs somewhere in b.
HasMarker(b) ==
    \E j \in 0..(Len(b) - Len(magicTrailer)) :
        SubSeq(b, j + 1, j + Len(magicTrailer)) = magicTrailer

\* C10 as stated: the archive comes back whatever unrelated bytes (bytes that
\* hold no marker), up to the size of the search window, follow the trailer.
C10_RoundTripUpToWindow ==
    (xpc = "done" /\ ~HasMarker(appended) /\ Len(appended) <= SearchLimit)
    => xret = XResult("ok", embedded)

\* C10: extractSelf returns exactly the embedded archive when the bytes that
\* follow the trailer hold no marker and leave the whole trailer inside the
\* search window, that is when there are at most SearchLimit - trailerSize.
C10_RoundTrip ==
    (/\ xpc = "done"
     /\ ~HasMarker(appended)
     /\ Len(appended) <= SearchLimit - trailerSize)
    => xret = XResult("ok", embedded)

C10_Witness ==
    /\ xpc = "done"
    /\ ~HasMarker(appended)
    /\ Len(appended) = SearchLimit - trailerSize
    /\ Len(embedded) = MaxArchive
    /\ HasMarker(embedded)
    /\ Len(exe) > SearchLimit
    /\ xret = XResult("ok", embedded)

\* C11: when num_workers exceeds the number of planned chunks the capacity of
\* the semaphore is the chunk count, never the requested count; otherwise it
\* is num_workers.
C11_EffectiveConcurrency ==
    pc = "mktemp" =>
        /\ num_workers > NChunks => actualWorkers = NChunks
        /\ num_workers <= NChunks => actualWorkers = num_workers

C11_Witness ==
    /\ pc = "mktemp"
    /\ NChunks >= 2
    /\ num_workers > NChunks
    /\ actualWorkers = NChunks

\* C12: whenever the call returns an error, also after an I/O failure in the
\* middle of the merge, the destination is absent or as it was before the call.
C12_NoPartialDestOnError ==
    (Returned /\ ret # Nil) => (~dest.exists \/ dest = destBefore)

\* C13: a call with an empty url, an empty output path or num_workers <= 0
\* returns the invalid-argument error from the validation step.  It never
\* comes to the positions where requests are issued (filename, size, the chunk
\* goroutines), where directories are made (resolve) or where files are
\* created (mktemp, merge): no temp file, no task, the destination untouched.
C13_InvalidArgumentsFailFirst ==
    (url = "" \/ outputPath = "" \/ num_workers <= 0) =>
        /\ pc \in {"validate", "done"}
        /\ pc = "done" => ret = Err("InvalidArgument", -1)
        /\ tempFiles = <<>>
        /\ task = <<>>
        /\ dest = destBefore

C13_Witness ==
    /\ Returned
    /\ url # ""
    /\ outputPath = ""
    /\ num_workers > 0
    /\ ret = Err("InvalidArgument", -1)
    /\ dest = File(OldContent)

\* The search window of a file: its last SearchLimit bytes, or all of it.
Window(f) == SubSeq(f, Len(f) - (IF Len(f) < SearchLimit THEN Len(f) ELSE SearchLimit) + 1, Len(f))

\* C14: when the marker occurs nowhere in the search window extractSelf
\* returns the magic-not-found error, and the seek to the window and the read
\* of the window are the only seek and read it made on the file.
C14_MarkerAbsentFailsWithoutReads ==
    (xpc = "done" /\ ~HasMarker(Window(exe))) =>
        /\ xret = XResult("MagicNotFound", <<>>)
        /\ ioLog = <<IoSeek(Len(exe) - Len(Window(exe))), IoRead(Len(Window(exe)))>>

C14_Witness ==
    /\ xpc = "done"
    /\ Len(exe) > SearchLimit
    /\ HasMarker(exe)
    /\ ~HasMarker(Window(exe))
    /\ xret = XResult("MagicNotFound", <<>>)
    /\ Len(ioLog) = 2

\* C15: on success the call hands the resolved target path back to its
\* caller: outputPath joined with the file name for an existing directory,
\* else outputPath as given.
C15_ReturnsResolvedPath ==
    (ppc = "done" /\ result.err = Nil) =>
        result.values = <<resolveOutputPath(outArg, originalFilename, outIsDir)>>

\* The chunk goroutines that hold a slot: started and not yet finished.
Holders == {k \in 1..NChunks : task[k].st # "Pending" /\ ~task[k].fin}

\* C16: every started and unfinished chunk goroutine holds one slot of the
\* semaphore and the slots taken never exceed its capacity, so at no point
\* are there more such goroutines than the effective concurrency.
C16_HoldersWithinConcurrency ==
    /\ Cardinality(Holders) = sem
    /\ sem <= actualWorkers
    /\ Cardinality(Holders) <= Min(num_workers, NChunks)

C16_Witness ==
    /\ actualWorkers >= 2
    /\ sem = actualWorkers
    /\ \A k \in 1..NChunks : task[k].st = "Fetching"
    /\ \E k \in 1..NChunks : task[k].retry > 0

\* C17: the merge runs only when every chunk goroutine ended in Succeeded;
\* when one was skipped or failed permanently the error slot is not empty at
\* the barrier and the destination is never written.
C17_MergeOnlyAfterAllSucceeded ==
    /\ (\/ pc \in {"merge_create", "merge_copy"}
        \/ (pc \in {"cleanup", "done"} /\ ret.kind \in {"nil", "MergeFailed"}))
       => \A k \in 1..NChunks : task[k].st = "Succeeded"
    /\ (\E k \in 1..NChunks : task[k].st \in {"Skipped", "PermanentlyFailed"})
       => /\ downloadErr # Nil
          /\ dest = destBefore
          /\ pc \in {"launch", "wait", "cleanup", "done"}

C17_Witness ==
    /\ Returned
    /\ \E k \in 1..NChunks : task[k].st = "Skipped" /\ tempData[k] = <<>>
    /\ \E k \in 1..NChunks : task[k].st = "PermanentlyFailed" /\ tempData[k] # <<>>
    /\ dest = destBefore
    /\ ret = downloadErr

\* The state of the per-chunk state machine a goroutine is in: it is Pending
\* until its first ranged GET, which a skipped goroutine never makes.
Phase(t) == IF t.st \in {"Pending", "Started", "Skipped"} THEN "Pending" ELSE t.st

\* The fetch attempts a chunk has made: the failed passes before the current
\* one, and the pass that ended it.
Attempts(t) == t.retry + (IF t.st \in {"Succeeded", "PermanentlyFailed"} THEN 1 ELSE 0)

\* C18: a chunk makes at most MaxAttempts attempts, is permanently failed only
\* after exactly MaxAttempts failed ones, makes no attempt after its first
\* success, and moves Pending -> Fetching -> Succeeded, Fetching again after
\* a failed attempt (Retrying), or PermanentlyFailed.
C18_RetryStateMachine ==
    /\ [](\A k \in 1..NChunks :
            /\ Attempts(task[k]) <= MaxAttempts
            /\ task[k].st = "PermanentlyFailed" => Attempts(task[k]) = MaxAttempts)
    /\ [][\A k \in 1..NChunks :
            LET a == task[k]
                b == task'[k]
            IN  /\ \/ Phase(b) = Phase(a) /\ Attempts(b) = Attempts(a)
                   \/ /\ Phase(a) = "Pending" /\ Phase(b) = "Fetching"
                      /\ Attempts(b) = 0
                   \/ /\ Phase(a) = "Fetching" /\ Phase(b) = "Fetching"
                      /\ Attempts(b) = Attempts(a) + 1
                      /\ Attempts(b) < MaxAttempts
                   \/ /\ Phase(a) = "Fetching" /\ Phase(b) = "Succeeded"
                      /\ Attempts(b) = Attempts(a) + 1
                   \/ /\ Phase(a) = "Fetching" /\ Phase(b) = "PermanentlyFailed"
                      /\ Attempts(b) = MaxAttempts
                /\ tempData'[k] # tempData[k] => Phase(a) = "Fetching"]_vars

C18_Witness ==
    /\ NChunks >= 2
    /\ \E k \in 1..NChunks : task[k].st = "PermanentlyFailed" /\ task[k].retry = MaxAttempts - 1
    /\ \E k \in 1..NChunks : task[k].st = "Succeeded" /\ task[k].retry = 1

\* C19: the merge begins, the temp files are removed and the call returns
\* only when every chunk goroutine that was started has finished; before the
\* launch loop no goroutine exists.
C19_BarrierBeforeMerge ==
    /\ pc \in {"merge_create", "merge_copy"} => \A k \in 1..NChunks : task[k].fin
    /\ pc \in {"cleanup", "done"} =>
          \/ \A k \in 1..NChunks : task[k].fin
          \/ \A k \in 1..NChunks : task[k].st = "Pending"

C19_Witness ==
    /\ pc = "merge_copy"
    /\ i = 1
    /\ NChunks = 2
    /\ \A k \in 1..NChunks : task[k].fin /\ task[k].st = "Succeeded"
    /\ dest = File(tempData[1])
    /\ tempData[1] # <<>>

\* C20: a chunk goroutine that begins while the error slot holds a failure
\* makes no ranged GET and writes nothing to its temp file; a goroutine that
\* is fetching is not stopped by another chunk's failure: it leaves Fetching
\* only by its own success or its own last failed attempt.
C20_SkipOnlyBeforeStart ==
    /\ [](\A k \in 1..NChunks :
            task[k].st = "Skipped" =>
                /\ tempData[k] = <<>>
                /\ task[k].retry = 0
                /\ downloadErr # Nil)
    /\ [][\A k \in 1..NChunks :
            /\ (task[k].st = "Started" /\ downloadErr # Nil /\ task'[k].st # "Started")
               => task'[k].st = "Skipped"
            /\ (task[k].st = "Fetching" /\ task'[k].st # "Fetching")
               => \/ task'[k].st = "Succeeded"
                  \/ /\ task'[k].st = "PermanentlyFailed"
                     /\ task[k].retry = MaxAttempts - 1
                     /\ downloadErr' = Err("ChunkFailed", k - 1)]_vars

C20_Witness ==
    /\ NChunks >= 2
    /\ \E k \in 1..NChunks : task[k].st = "PermanentlyFailed" /\ task[k].fin
    /\ \E k \in 1..NChunks :
          /\ task[k].st = "Fetching"
          /\ task[k].retry > 0
          /\ tempData[k] # <<>>
          /\ downloadErr = Err("ChunkFailed", 2 - k)

\* C21: once the call has returned no goroutine it started is still running
\* or reading the shared download state; the progress goroutine is one of them.
C21_NoTaskOutlivesCall ==
    Returned =>
        /\ \A k \in 1..NChunks : task[k].st = "Pending" \/ task[k].fin
        /\ prog \in {"none", "stopped"}

\* The progress goroutine saw one of its two reasons to return.
ProgDone == lastProgress >= 100 \/ downloadErr # Nil

C26_CallReturns ==
    /\ <>Returned
    /\ [](wg = Cardinality(Holders) /\ sem = wg)
    /\ [][\A k \in 1..NChunks : task[k].fin => task'[k].fin]_vars

C26_Witness ==
    /\ Returned
    /\ NChunks = 2
    /\ task[1].st = "PermanentlyFailed"
    /\ task[2].st = "Succeeded"
    /\ task[2].retry = MaxAttempts - 1

\* The offset in the file of the marker extractSelf found.
MagicOffset == startOffset + LastIndex(buf, magicTrailer)

\* A length field was decoded: the marker was found with LenWidth bytes
\* of the window in front of it.
LengthDecoded == LastIndex(buf, magicTrailer) >= LenWidth

\* C23: every decoded archive length greater than the offset of the length
\* field, those of the upper half of the unsigned range included, makes
\* extractSelf return the invalid-offset error with no archive buffer made
\* and no seek or read beyond those of the window.
C23_OversizedLengthIsInvalidOffset ==
    (xpc = "done" /\ LengthDecoded /\ archiveLen > MagicOffset - LenWidth)
    => /\ xret = XResult("InvalidOffset", <<>>)
       /\ Len(ioLog) = 2

\* The offsets at which the marker occurs in b.
Occurrences(b) ==
    {j \in 0..(Len(b) - Len(magicTrailer)) :
        SubSeq(b, j + 1, j + Len(magicTrailer)) = magicTrailer}

\* C24: when the marker occurs more than once in the search window and no
\* marker follows the real trailer, extractSelf takes the last occurrence,
\* decodes the real length field and returns exactly the embedded archive.
C24_LastMarkerWins ==
    (/\ xpc = "done"
     /\ Cardinality(Occurrences(Window(exe))) >= 2
     /\ ~HasMarker(appended))
    => xret = XResult("ok", embedded)

C24_Witness ==
    /\ xpc = "done"
    /\ Cardinality(Occurrences(Window(exe))) >= 3
    /\ appended # <<>>
    /\ ~HasMarker(appended)
    /\ embedded # <<>>
    /\ xret = XResult("ok", embedded)

\* C25: extractSelf returns an archive only when the decoded length is
\* greater than 0 and at most the offset of the marker; a length field of 0
\* is not taken for an embedded archive.
C25_TrailerRecordInvariant ==
    xret.kind = "ok" => (0 < archiveLen /\ archiveLen <= MagicOffset)

\* C27: the result page is shown and the install result recorded only when
\* cleaning the directory and acquiring the payload both succeeded; a run in
\* which cleanInstallDir, the download or writeFilesWithProgress returned an
\* error ends on the install page.
C27_ResultPageOnlyOnSuccess ==
    /\ page = "result" => stepFailed = "none"
    /\ installedDir # "" => stepFailed = "none"
    /\ (ipc = "idle" /\ stepFailed # "none") => page = "install"

\* C28: when the archive holds meta.json, the install steps never begin
\* while meta still holds the built-in defaults.
C28_InstallUsesArchiveMeta ==
    (archiveHasMeta /\ metaAtStart # "none") => metaAtStart = "fromArchive"

\* The entries of a stream before its first entry that fails to decode.
RECURSIVE Decodable(_)
Decodable(st) ==
    IF st = <<>> \/ Head(st).fault # "none" THEN <<>>
    ELSE <<Head(st)>> \o Decodable(Tail(st))

\* The regular-file and directory entries of a stream, in stream order.
Kept(st) == SelectSeq(st, LAMBDA h : h.typeflag \in {"reg", "dir"})

\* C29: a successful unpack returns, in archive order, one entry per regular
\* file (stored name, stored mode, whole content) and one per directory
\* (name with "/" appended, no data); entries of other kinds leave no entry
\* and raise no error.
C29_EntriesMatchArchive ==
    (tpc = "done" /\ gzOk /\ Decodable(stream) = stream) =>
        /\ tret.err = Nil
        /\ Len(tret.files) = Len(Kept(stream))
        /\ \A j \in 1..Len(tret.files) :
              LET h == Kept(stream)[j]
                  f == tret.files[j]
              IN  /\ f.Mode = h.mode
                  /\ h.typeflag = "reg" => (f.Name = h.name /\ f.Data = h.data)
                  /\ h.typeflag = "dir" => (f.Name = h.name \o <<"/">> /\ f.Data = <<>>)

C29_Witness ==
    /\ tpc = "done"
    /\ Len(stream) = MaxEntries
    /\ stream[1].typeflag = "symlink"
    /\ stream[2].typeflag = "dir"
    /\ tret = [files |-> <<[Name |-> stream[2].name \o <<"/">>, Mode |-> stream[2].mode,
                           Data |-> <<>>]>>,
               err |-> Nil]

\* C30: the end of the stream ends the unpack without an error and with
\* every entry read; any other decode error, wherever it comes, returns the
\* error and no entry at all.
C30_DecodeErrorDiscardsAll ==
    tpc = "done" =>
        IF gzOk /\ Decodable(stream) = stream
        THEN tret.err = Nil /\ Len(tret.files) = Len(Kept(stream))
        ELSE tret.err # Nil /\ tret.files = <<>>

C30_Witness ==
    /\ tpc = "done"
    /\ gzOk
    /\ outFiles # <<>>
    /\ tret.err = Err("CopyError", 1)
    /\ tret.files = <<>>

\* The least c with c * workers >= size: size / workers rounded up.
Ceiling(size, workers) == CHOOSE c \in 0..size : c * workers >= size /\ (c - 1) * workers < size

\* C31: for fileSize > 0 and num_workers > 0 the chunk size is fileSize /
\* num_workers rounded up (at least 1), every chunk but the last holds exactly
\* that many bytes, the last chunk ends at fileSize - 1, and there are never
\* more chunks than workers, so the semaphore capacity is the chunk count.
C31_ChunkSizeAndCount ==
    pc = "mktemp" =>
        LET chunkSize == Ceiling(fileSize, num_workers)
        IN  /\ chunkSize >= 1
            /\ \A k \in 1..(NChunks - 1) : chunks[k].end - chunks[k].start + 1 = chunkSize
            /\ chunks[NChunks].end - chunks[NChunks].start + 1 <= chunkSize
            /\ chunks[NChunks].end = fileSize - 1
            /\ NChunks <= num_workers
            /\ actualWorkers = NChunks

C31_Witness ==
    /\ pc = "mktemp"
    /\ fileSize % num_workers # 0
    /\ NChunks >= 3
    /\ NChunks < num_workers
    /\ actualWorkers = NChunks
    /\ chunks[NChunks].end = fileSize - 1
    /\ chunks[NChunks].end - chunks[NChunks].start < chunks[1].end - chunks[1].start

\* C32: the temp file of chunk k is written only in a fetch attempt of task
\* k, during the fetch phase, and that step touches no other temp file and no
\* other task; the merge writes no temp file, each of its passes reads the
\* temp file at the loop index, and a finished merge has read every temp file
\* once.
C32_TempFileOwnedByOneTask ==
    /\ [][\A k \in 1..NChunks :
            tempData'[k] # tempData[k] =>
                /\ pc \in {"launch", "wait"}
                /\ task[k].st = "Fetching"
                /\ task'[k] # task[k]
                /\ \A j \in (1..NChunks) \ {k} :
                      tempData'[j] = tempData[j] /\ task'[j] = task[j]]_vars
    /\ [][dest' # dest =>
            /\ pc \in {"merge_create", "merge_copy"}
            /\ tempData' = tempData
            /\ \A k \in 1..NChunks : TaskEnded(k)
            /\ pc = "merge_copy" =>
                  \E n \in 1..Len(tempData[i + 1]) :
                      dest'.data = dest.data \o SubSeq(tempData[i + 1], 1, n)]_vars
    /\ [](ReturnedOk =>
            Len(dest.data) = SumTo([k \in 1..NChunks |-> Len(tempData[k])], NChunks))

C32_Witness ==
    /\ ReturnedOk
    /\ NChunks = 2
    /\ task[1].retry = 1
    /\ task[2].retry = 0
    /\ Len(tempData[1]) > task[1].n
    /\ dest.data = tempData[1] \o tempData[2]

\* C33: every percentage handed to updateProgress during a download lies
\* between 0 and 100, and the percentages handed over never decrease.
C33_ProgressWithinBounds ==
    /\ [](prog # "none" /\ lastProgress # -1 => (0 <= lastProgress /\ lastProgress <= 100))
    /\ [][lastProgress # -1 => lastProgress' >= lastProgress]_vars

\* C34: when the HEAD answer carries no Content-Length, or a length that is
\* not positive, the call returns an error about the size from the size step:
\* it never comes to the planning, no temp file is created, no chunk goroutine
\* is started (so no ranged GET is issued) and the destination is untouched.
C34_SizeUnknownFailsFirst ==
    /\ remoteSize <= 0 =>
          /\ pc \in {"validate", "filename", "resolve", "size", "done"}
          /\ (Returned /\ fileSize = remoteSize /\ url # "" /\ outputPath # "" /\ num_workers > 0)
                => ret.kind \in {"InvalidFileSize", "FilenameError", "ResolveError",
                                 "SizeError", "NoContentLength"}
          /\ ret # Nil
          /\ chunks = <<>> /\ tempFiles = <<>> /\ task = <<>>
          /\ dest = destBefore
    /\ ret = Err("NoContentLength", -1) =>
          /\ pc = "done"
          /\ fileSize = 0
          /\ chunks = <<>> /\ tempFiles = <<>> /\ task = <<>>
          /\ dest = destBefore

C34_Witness ==
    /\ Returned
    /\ remoteSize = 0
    /\ num_workers = MaxWorkers
    /\ ret = Err("InvalidFileSize", -1)
    /\ tempFiles = <<>>
    /\ task = <<>>
    /\ dest = File(OldContent)

\* C35: when the last marker of the search window starts fewer than LenWidth
\* bytes into the window extractSelf returns the truncated-header error: no
\* length is decoded, and the seek to the window and the read of the window
\* are the only seek and read it made.
C35_TruncatedHeaderFailsWithoutReads ==
    (/\ xpc = "done"
     /\ Occurrences(Window(exe)) # {}
     /\ \A j \in Occurrences(Window(exe)) : j < LenWidth) =>
        /\ xret = XResult("TruncatedHeader", <<>>)
        /\ archiveLen = 0
        /\ archiveStartOffset = 0
        /\ ioLog = <<IoSeek(Len(exe) - Len(Window(exe))), IoRead(Len(Window(exe)))>>

C35_Witness ==
    /\ xpc = "done"
    /\ Len(exe) > trailerSize
    /\ Occurrences(Window(exe)) = {LenWidth - 1}
    /\ xret = XResult("TruncatedHeader", <<>>)
    /\ Len(ioLog) = 2

\* C36: when moveOrCopyFile returns an error, a destination file that was
\* there before the call is still there with the content it had, and the
\* source file is as it was.
C36_FailedMoveLeavesBothPaths ==
    (mvpc = "done" /\ mvret # Nil) =>
        /\ dstBefore.exists => dstFile = dstBefore
        /\ srcFile = srcBefore

====
